---- MODULE Spec2Model ----
(***************************************************************************)
(* Identity certificates (src/remote/idcert.rs): DER decoding of the       *)
(* certificate and of its extension block, re-encoding, the extension      *)
(* constructors, and the two validation paths validate_ta / validate_ee.   *)
(*                                                                         *)
(* Byte strings are sequences of numbers 0..255 in real DER framing.       *)
(* Keys, key identifiers, times and signatures are one octet wide.         *)
(***************************************************************************)
EXTENDS Integers, Sequences, FiniteSets, TLC

\* ---------------------------------------------------------------- bounds
NumKeys == 2
MaxTime == 1
MaxExt == 3

Keys == 1..NumKeys
Times == 0..MaxTime

\* ------------------------------------------------------- Option / Result
None == [some |-> FALSE]
Some(x) == [some |-> TRUE, val |-> x]
Err == [ok |-> FALSE]
Ok(x) == [ok |-> TRUE, val |-> x]

\* ------------------------------------------------------------- DER codec
TagBoolean == 1
TagInteger == 2
TagBitString == 3
TagOctetString == 4
TagOid == 6
TagUtcTime == 23
TagSequence == 48
TagCtx0Prim == 128
TagCtx0 == 160
TagCtx3 == 163

CE_BASIC_CONSTRAINTS == <<85, 29, 19>>
CE_SUBJECT_KEY_IDENTIFIER == <<85, 29, 14>>
CE_AUTHORITY_KEY_IDENTIFIER == <<85, 29, 35>>
SHA256_WITH_RSA_ENCRYPTION == <<42, 134, 72, 134, 247, 13, 1, 1, 11>>
RSA_ENCRYPTION == <<42, 134, 72, 134, 247, 13, 1, 1, 1>>

\* definite length, short form below 128, one length octet above
encode_length(n) == IF n < 128 THEN <<n>> ELSE <<129, n>>

encode_value(tag, content) == <<tag>> \o encode_length(Len(content)) \o content

encode_bool(b) == encode_value(TagBoolean, IF b THEN <<255>> ELSE <<0>>)

\* number of octets of the tag and the length
header_length(s) == IF s[2] < 128 THEN 2 ELSE 3

\* the length a DER header announces, -1 when it is not minimal
content_length(s) ==
    IF s[2] < 128 THEN s[2]
    ELSE IF s[2] = 129 /\ Len(s) >= 3 /\ s[3] >= 128 THEN s[3]
    ELSE -1

split_value(s, hdr, n) ==
    IF n < 0 \/ Len(s) < hdr + n THEN Err
    ELSE [ok |-> TRUE, tag |-> s[1],
          content |-> SubSeq(s, hdr + 1, hdr + n),
          raw |-> SubSeq(s, 1, hdr + n),
          rest |-> SubSeq(s, hdr + n + 1, Len(s))]

\* reads one tag-length-value from the front of s
take_value(s) ==
    IF Len(s) < 2 THEN Err ELSE split_value(s, header_length(s), content_length(s))

\* all values of a definite-length constructed value; the content has to
\* be used up exactly (Constructed::exhausted in the Definite state)
RECURSIVE take_all_from(_, _)
take_all_step(v, acc) ==
    IF ~v.ok THEN Err ELSE take_all_from(v.rest, Append(acc, v))

take_all_from(s, acc) ==
    IF s = <<>> THEN Ok(acc) ELSE take_all_step(take_value(s), acc)

take_all(s) == take_all_from(s, <<>>)

\* Mode::Der.decode(source, op), given what op returned on the source: the
\* part of the source that op left unread is dropped without a look (the
\* unknown-extension branch of IdExtensions::take_from returns Ok(())
\* without reading its content and counts on this).
Mode_decode(r) == IF r.ok THEN Ok(r.val) ELSE Err

\* DER boolean content
bool_content(c) ==
    IF c = <<255>> THEN Ok(TRUE) ELSE IF c = <<0>> THEN Ok(FALSE) ELSE Err

\* --------------------------------------------------- external primitives
\* SubjectPublicKeyInfo::key_identifier: SHA-1 of the key bits, one octet
KeyId(key) == <<(key[1] * 37 + 11) % 256>>

\* digest of a byte string: the sum of its octets modulo 251
RECURSIVE SumRange(_, _, _)
SumRange(s, lo, hi) ==
    IF lo > hi THEN 0
    ELSE IF lo = hi THEN s[lo]
    ELSE LET mid == (lo + hi) \div 2
         IN  (SumRange(s, lo, mid) + SumRange(s, mid + 1, hi)) % 251

SumBytes(s) == SumRange(s, 1, Len(s)) % 251

\* the signature the holder of public key `key` produces over `data`
SignatureOf(key, data) == <<(SumBytes(data) + 7 * key[1]) % 256>>

\* SignedData::verify_signature
verify_signature(signed_data, public_key) ==
    signed_data.signature = SignatureOf(public_key, signed_data.data)

\* Validity::validate at time now
Validity_validate(validity, now) ==
    validity.not_before <= now /\ now <= validity.not_after

\* ------------------------------------------------ extension value types
BasicCa_new(critical, ca) == [critical |-> critical, ca |-> ca]

SubjectKeyIdentifier_new(key) == [subject_key_id |-> KeyId(key.subject_public_key)]

AuthorityKeyIdentifier_new(key) == [authority_key_id |-> KeyId(key.subject_public_key)]

\* an extension entry: identifier, criticality (DEFAULT FALSE, left out
\* when false), the value wrapped in an octet string
encode_extension(id, critical, value) ==
    encode_value(TagSequence,
        encode_value(TagOid, id)
        \o (IF critical THEN encode_bool(TRUE) ELSE <<>>)
        \o encode_value(TagOctetString, value))

\* BasicCa::encode that leaves the CA flag out
BasicCa_encode_no_ca(b) ==
    encode_extension(CE_BASIC_CONSTRAINTS, b.critical,
        encode_value(TagSequence, <<>>))

BasicCa_encode(b) ==
    encode_extension(CE_BASIC_CONSTRAINTS, b.critical,
        encode_value(TagSequence, IF b.ca THEN encode_bool(TRUE) ELSE <<>>))

SubjectKeyIdentifier_encode(s) ==
    encode_extension(CE_SUBJECT_KEY_IDENTIFIER, FALSE,
        encode_value(TagOctetString, s.subject_key_id))

AuthorityKeyIdentifier_encode(a) ==
    encode_extension(CE_AUTHORITY_KEY_IDENTIFIER, FALSE,
        encode_value(TagSequence, encode_value(TagCtx0Prim, a.authority_key_id)))

\* X::take(content, critical, &mut slot): Err when the slot is already
\* filled or the value is malformed, else the filled slot
basic_ca_of(flag, critical) ==
    IF ~flag.ok THEN Err ELSE Ok(Some(BasicCa_new(critical, flag.val)))

basic_ca_flag(b, critical) ==
    IF ~b.ok THEN Err
    ELSE IF b.tag # TagBoolean \/ b.rest # <<>> THEN Err
    ELSE basic_ca_of(bool_content(b.content), critical)

basic_ca_value(s, critical) ==
    IF ~s.ok THEN Err
    ELSE IF s.tag # TagSequence THEN Err
    ELSE IF s.content = <<>> THEN Ok(Some(BasicCa_new(critical, FALSE)))
    ELSE basic_ca_flag(take_value(s.content), critical)

BasicCa_take(content, critical, slot) ==
    IF slot.some THEN Err ELSE basic_ca_value(take_value(content), critical)

subject_key_id_value(o) ==
    IF ~o.ok THEN Err
    ELSE IF o.tag # TagOctetString THEN Err
    ELSE Ok(Some([subject_key_id |-> o.content]))

SubjectKeyIdentifier_take(content, critical, slot) ==
    IF slot.some THEN Err ELSE subject_key_id_value(take_value(content))

authority_key_id_field(k) ==
    IF ~k.ok THEN Err
    ELSE IF k.tag # TagCtx0Prim \/ k.rest # <<>> THEN Err
    ELSE Ok(Some([authority_key_id |-> k.content]))

authority_key_id_value(s) ==
    IF ~s.ok THEN Err
    ELSE IF s.tag # TagSequence THEN Err
    ELSE authority_key_id_field(take_value(s.content))

AuthorityKeyIdentifier_take(content, critical, slot) ==
    IF slot.some THEN Err ELSE authority_key_id_value(take_value(content))

\* ----------------------------------------------------------- IdExtensions
\* the three slots the decoding loop fills
NoSlots == [basic_ca |-> None, subject_key_id |-> None, authority_key_id |-> None]

\* the slots after a take into slot `name` that returned r
after_take(slots, name, r) ==
    IF r.ok THEN Ok([slots EXCEPT ![name] = r.val]) ELSE Err

\* dispatch_extension without the criticality test
dispatch_extension_ignore_critical(id, critical, content, slots) ==
    IF id = CE_BASIC_CONSTRAINTS THEN
        after_take(slots, "basic_ca",
                   BasicCa_take(content, critical, slots.basic_ca))
    ELSE IF id = CE_SUBJECT_KEY_IDENTIFIER THEN
        after_take(slots, "subject_key_id",
                   SubjectKeyIdentifier_take(content, critical, slots.subject_key_id))
    ELSE IF id = CE_AUTHORITY_KEY_IDENTIFIER THEN
        after_take(slots, "authority_key_id",
                   AuthorityKeyIdentifier_take(content, critical, slots.authority_key_id))
    ELSE Ok(slots)

\* the closure run on the content of one entry's octet string
dispatch_extension(id, critical, content, slots) ==
    IF id = CE_BASIC_CONSTRAINTS THEN
        after_take(slots, "basic_ca",
                   BasicCa_take(content, critical, slots.basic_ca))
    ELSE IF id = CE_SUBJECT_KEY_IDENTIFIER THEN
        after_take(slots, "subject_key_id",
                   SubjectKeyIdentifier_take(content, critical, slots.subject_key_id))
    ELSE IF id = CE_AUTHORITY_KEY_IDENTIFIER THEN
        after_take(slots, "authority_key_id",
                   AuthorityKeyIdentifier_take(content, critical, slots.authority_key_id))
    ELSE IF critical THEN Err
    ELSE Ok(slots)

\* the value of an entry with identifier id and criticality flag
extension_value(id, flag, fields, vpos, slots) ==
    IF ~flag.ok THEN Err
    ELSE IF Len(fields) # vpos THEN Err
    ELSE IF fields[vpos].tag # TagOctetString THEN Err
    ELSE Mode_decode(dispatch_extension(id, flag.val, fields[vpos].content, slots))

\* the fields of an entry: Oid, optional boolean (default false), octets
extension_fields(f, slots) ==
    IF ~f.ok THEN Err
    ELSE IF Len(f.val) < 2 THEN Err
    ELSE IF f.val[1].tag # TagOid THEN Err
    ELSE extension_value(f.val[1].content,
             IF f.val[2].tag = TagBoolean THEN bool_content(f.val[2].content)
             ELSE Ok(FALSE),
             f.val,
             IF f.val[2].tag = TagBoolean THEN 3 ELSE 2,
             slots)

\* one pass of the while loop
take_extension(entry, slots) ==
    IF entry.tag # TagSequence THEN Err
    ELSE extension_fields(take_all(entry.content), slots)

RECURSIVE take_extensions(_, _)
next_extension(entries, r) ==
    IF r.ok THEN take_extensions(entries, r.val) ELSE Err

take_extensions(entries, slots) ==
    IF entries = <<>> THEN Ok(slots)
    ELSE next_extension(Tail(entries), take_extension(Head(entries), slots))

\* the closing Ok(IdExtensions {..}) that also insists on authority_key_id
IdExtensions_new_require_aki(r) ==
    IF ~r.ok THEN Err
    ELSE IF ~r.val.subject_key_id.some \/ ~r.val.authority_key_id.some THEN Err
    ELSE Ok([basic_ca |-> r.val.basic_ca,
             subject_key_id |-> r.val.subject_key_id.val,
             authority_key_id |-> r.val.authority_key_id])

\* the closing Ok(IdExtensions {..}) with subject_key_id.ok_or(Malformed)
IdExtensions_new(r) ==
    IF ~r.ok THEN Err
    ELSE IF ~r.val.subject_key_id.some THEN Err
    ELSE Ok([basic_ca |-> r.val.basic_ca,
             subject_key_id |-> r.val.subject_key_id.val,
             authority_key_id |-> r.val.authority_key_id])

extension_entries(e) ==
    IF ~e.ok THEN Err ELSE take_extensions(e.val, NoSlots)

extensions_sequence(s) ==
    IF ~s.ok THEN Err
    ELSE IF s.tag # TagSequence \/ s.rest # <<>> THEN Err
    ELSE IdExtensions_new(extension_entries(take_all(s.content)))

\* IdExtensions::take_from on the content of the [3] field
IdExtensions_take_from(cons) == extensions_sequence(take_value(cons))

IdExtensions_encode(ext) ==
    encode_value(TagCtx3,
        encode_value(TagSequence,
            (IF ext.basic_ca.some THEN BasicCa_encode(ext.basic_ca.val) ELSE <<>>)
            \o SubjectKeyIdentifier_encode(ext.subject_key_id)
            \o (IF ext.authority_key_id.some
                THEN AuthorityKeyIdentifier_encode(ext.authority_key_id.val)
                ELSE <<>>)))

\* for_id_ta_cert with the CA flag cleared
for_id_ta_cert_not_ca(key) ==
    [basic_ca |-> Some(BasicCa_new(TRUE, FALSE)),
     subject_key_id |-> SubjectKeyIdentifier_new(key),
     authority_key_id |-> Some(AuthorityKeyIdentifier_new(key))]

for_id_ta_cert(key) ==
    [basic_ca |-> Some(BasicCa_new(TRUE, TRUE)),
     subject_key_id |-> SubjectKeyIdentifier_new(key),
     authority_key_id |-> Some(AuthorityKeyIdentifier_new(key))]

for_id_ee_cert(subject_key, authority_key) ==
    [basic_ca |-> None,
     subject_key_id |-> SubjectKeyIdentifier_new(subject_key),
     authority_key_id |-> Some(AuthorityKeyIdentifier_new(authority_key))]

subject_key_id(ext) == ext.subject_key_id.subject_key_id

authority_key_id(ext) ==
    IF ext.authority_key_id.some
    THEN Some(ext.authority_key_id.val.authority_key_id)
    ELSE None

\* -------------------------------------------------- certificate components
\* SignedData::from_constructed: the to-be-signed value is captured as it
\* stands, then the algorithm and the signature bits
SignedData_from_constructed(items) ==
    IF ~items.ok THEN Err
    ELSE IF Len(items.val) # 3 THEN Err
    ELSE IF items.val[2].tag # TagSequence
            \/ items.val[2].content # encode_value(TagOid, SHA256_WITH_RSA_ENCRYPTION)
            \/ items.val[3].tag # TagBitString
            \/ Len(items.val[3].content) < 1
    THEN Err
    ELSE IF items.val[3].content[1] # 0 THEN Err
    ELSE Ok([data |-> items.val[1].raw,
             signature_algorithm |-> "Sha256WithRsaEncryption",
             signature |-> Tail(items.val[3].content)])

SignedData_encode(sd) ==
    encode_value(TagSequence,
        sd.data
        \o encode_value(TagSequence, encode_value(TagOid, SHA256_WITH_RSA_ENCRYPTION))
        \o encode_value(TagBitString, <<0>> \o sd.signature))

\* Unsigned::take_from: a non-negative INTEGER
Unsigned_take_from(v) ==
    IF v.tag # TagInteger \/ Len(v.content) < 1 THEN Err
    ELSE IF v.content[1] >= 128 THEN Err
    ELSE Ok(v.content)

SignatureAlgorithm_take_from(v) ==
    IF v.tag # TagSequence
       \/ v.content # encode_value(TagOid, SHA256_WITH_RSA_ENCRYPTION)
    THEN Err
    ELSE Ok("Sha256WithRsaEncryption")

Name_take_from(v) == IF v.tag # TagSequence THEN Err ELSE Ok(v.raw)

validity_times(t) ==
    IF ~t.ok THEN Err
    ELSE IF Len(t.val) # 2 THEN Err
    ELSE IF \E i \in 1..2 : t.val[i].tag # TagUtcTime \/ Len(t.val[i].content) # 1
    THEN Err
    ELSE Ok([not_before |-> t.val[1].content[1],
             not_after |-> t.val[2].content[1]])

Validity_take_from(v) ==
    IF v.tag # TagSequence THEN Err ELSE validity_times(take_all(v.content))

public_key_fields(t) ==
    IF ~t.ok THEN Err
    ELSE IF Len(t.val) # 2 THEN Err
    ELSE IF t.val[1].tag # TagSequence
            \/ t.val[1].content # encode_value(TagOid, RSA_ENCRYPTION)
            \/ t.val[2].tag # TagBitString
            \/ Len(t.val[2].content) < 2
    THEN Err
    ELSE IF t.val[2].content[1] # 0 THEN Err
    ELSE Ok([algorithm |-> "RsaEncryption",
             subject_public_key |-> Tail(t.val[2].content)])

SubjectPublicKeyInfo_take_from(v) ==
    IF v.tag # TagSequence THEN Err ELSE public_key_fields(take_all(v.content))

key_identifier(spki) == KeyId(spki.subject_public_key)

\* ----------------------------------------------------------------- IdCert
\* the version field: take_constructed_if(Tag::CTX_0, |c| c.skip_u8_if(2))
take_version(v) ==
    v.tag = TagCtx0 /\ v.content = encode_value(TagInteger, <<2>>)

\* the extensions field: take_constructed_if(Tag::CTX_3, IdExtensions::take_from)
take_extensions_field(v) ==
    IF v.tag = TagCtx3 THEN IdExtensions_take_from(v.content) ELSE Err

\* Ok(IdCert {..}) once every field has been taken
IdCert_new(signed_data, serial, alg, issuer, validity, subject, spki, ext) ==
    IF ~serial.ok \/ ~alg.ok \/ ~issuer.ok \/ ~validity.ok
       \/ ~subject.ok \/ ~spki.ok \/ ~ext.ok
    THEN Err
    ELSE Ok([signed_data |-> signed_data,
             serial_number |-> serial.val,
             signature |-> alg.val,
             issuer |-> issuer.val,
             validity |-> validity.val,
             subject |-> subject.val,
             subject_public_key_info |-> spki.val,
             extensions |-> ext.val])

\* the fields of the to-be-signed sequence that follow the version
take_fields(signed_data, f) ==
    IF Len(f) # 7 THEN Err
    ELSE IdCert_new(signed_data,
                    Unsigned_take_from(f[1]),
                    SignatureAlgorithm_take_from(f[2]),
                    Name_take_from(f[3]),
                    Validity_take_from(f[4]),
                    Name_take_from(f[5]),
                    SubjectPublicKeyInfo_take_from(f[6]),
                    take_extensions_field(f[7]))

\* tbs_fields with the version read by take_opt_constructed_if
tbs_fields_optional_version(signed_data, f) ==
    IF ~f.ok THEN Err
    ELSE IF Len(f.val) >= 1 /\ f.val[1].tag = TagCtx0
    THEN IF take_version(f.val[1])
         THEN take_fields(signed_data, Tail(f.val))
         ELSE Err
    ELSE take_fields(signed_data, f.val)

\* the fields of the to-be-signed sequence, the version first
tbs_fields(signed_data, f) ==
    IF ~f.ok THEN Err
    ELSE IF Len(f.val) < 1 THEN Err
    ELSE IF ~take_version(f.val[1]) THEN Err
    ELSE take_fields(signed_data, Tail(f.val))

tbs_sequence(signed_data, s) ==
    IF ~s.ok THEN Err
    ELSE IF s.tag # TagSequence THEN Err
    ELSE tbs_fields(signed_data, take_all(s.content))

\* the closure of from_constructed run on the captured to-be-signed value
take_tbs(signed_data, cons) == tbs_sequence(signed_data, take_value(cons))

decode_signed_data(sd) ==
    IF ~sd.ok THEN Err ELSE Mode_decode(take_tbs(sd.val, sd.val.data))

\* IdCert::from_constructed on the content of the outer sequence
IdCert_from_constructed(cons) ==
    decode_signed_data(SignedData_from_constructed(take_all(cons)))

certificate_sequence(s) ==
    IF ~s.ok THEN Err
    ELSE IF s.tag # TagSequence THEN Err
    ELSE IdCert_from_constructed(s.content)

\* IdCert::take_from: cons.take_sequence(Self::from_constructed)
IdCert_take_from(cons) == certificate_sequence(take_value(cons))

\* IdCert::decode
IdCert_decode(source) == Mode_decode(IdCert_take_from(source))

\* IdCert::encode
IdCert_encode(cert) == SignedData_encode(cert.signed_data)

\* IdCert::to_bytes
IdCert_to_bytes(cert) == IdCert_encode(cert)

public_key(cert) == cert.subject_public_key_info.subject_public_key

\* ------------------------------------------------------------- validation
\* validate_basics without the key identifier comparison
validate_basics_no_ski(cert, now) ==
    IF ~Validity_validate(cert.validity, now) THEN Err
    ELSE Ok(<<>>)

validate_basics(cert, now) ==
    IF ~Validity_validate(cert.validity, now) THEN Err
    ELSE IF subject_key_id(cert.extensions) # key_identifier(cert.subject_public_key_info)
    THEN Err
    ELSE Ok(<<>>)

\* validate_issued that lets a missing authority key identifier pass
validate_issued_optional(cert, issuer) ==
    LET aki == authority_key_id(cert.extensions)
    IN  IF aki.some
        THEN IF aki.val # subject_key_id(issuer.extensions) THEN Err ELSE Ok(<<>>)
        ELSE Ok(<<>>)

validate_issued(cert, issuer) ==
    LET aki == authority_key_id(cert.extensions)
    IN  IF aki.some
        THEN IF aki.val # subject_key_id(issuer.extensions) THEN Err ELSE Ok(<<>>)
        ELSE Err

\* validate_ca_basics that lets a missing basic_ca pass
validate_ca_basics_absent_ok(cert) ==
    IF cert.extensions.basic_ca.some
    THEN IF cert.extensions.basic_ca.val.ca = TRUE THEN Ok(<<>>) ELSE Err
    ELSE Ok(<<>>)

validate_ca_basics(cert) ==
    IF cert.extensions.basic_ca.some /\ cert.extensions.basic_ca.val.ca = TRUE
    THEN Ok(<<>>)
    ELSE Err

validate_signature(cert, issuer) ==
    IF verify_signature(cert.signed_data, public_key(issuer)) THEN Ok(<<>>) ELSE Err

validate_ta(cert, now) ==
    IF ~validate_basics(cert, now).ok THEN Err
    ELSE IF ~validate_ca_basics(cert).ok THEN Err
    ELSE LET aki == authority_key_id(cert.extensions)
         IN  IF aki.some /\ aki.val # subject_key_id(cert.extensions) THEN Err
             ELSE IF ~verify_signature(cert.signed_data,
                                       cert.subject_public_key_info.subject_public_key)
             THEN Err
             ELSE Ok(cert)

\* validate_ee that hands back the certificate without its authority key
\* identifier
validate_ee_strip_aki(cert, issuer, now) ==
    IF ~validate_basics(cert, now).ok THEN Err
    ELSE IF ~validate_issued(cert, issuer).ok THEN Err
    ELSE IF cert.extensions.basic_ca # None THEN Err
    ELSE IF ~validate_signature(cert, issuer).ok THEN Err
    ELSE Ok([cert EXCEPT !.extensions.authority_key_id = None])

validate_ee(cert, issuer, now) ==
    IF ~validate_basics(cert, now).ok THEN Err
    ELSE IF ~validate_issued(cert, issuer).ok THEN Err
    ELSE IF cert.extensions.basic_ca # None THEN Err
    ELSE IF ~validate_signature(cert, issuer).ok THEN Err
    ELSE Ok(cert)

\* ------------------------------------------------------------------ inputs
\* An input is described by a recipe and written out as DER bytes; the
\* program only ever sees the bytes.
UNKNOWN_EXTENSION == <<85, 29, 15>>

Entry(id, flag, ca, kid) == [id |-> id, flag |-> flag, ca |-> ca, kid |-> kid]

EntryBytes(e) ==
    encode_value(TagSequence,
        encode_value(TagOid,
            CASE e.id = "bc" -> CE_BASIC_CONSTRAINTS
              [] e.id = "ski" -> CE_SUBJECT_KEY_IDENTIFIER
              [] e.id = "aki" -> CE_AUTHORITY_KEY_IDENTIFIER
              [] OTHER -> UNKNOWN_EXTENSION)
        \o (CASE e.flag = "true" -> encode_bool(TRUE)
              [] e.flag = "false" -> encode_bool(FALSE)
              [] OTHER -> <<>>)
        \o encode_value(TagOctetString,
            CASE e.id = "bc" ->
                    encode_value(TagSequence, IF e.ca THEN encode_bool(TRUE) ELSE <<>>)
              [] e.id = "ski" -> encode_value(TagOctetString, KeyId(<<e.kid>>))
              [] e.id = "aki" ->
                    encode_value(TagSequence, encode_value(TagCtx0Prim, KeyId(<<e.kid>>)))
              [] OTHER -> <<5, 0>>))

RECURSIVE EntriesBytes(_)
EntriesBytes(es) == IF es = <<>> THEN <<>> ELSE EntryBytes(Head(es)) \o EntriesBytes(Tail(es))

ExtensionsBytes(es) == encode_value(TagSequence, EntriesBytes(es))

TbsBytes(r) ==
    encode_value(TagSequence,
        (CASE r.version = "v3" -> encode_value(TagCtx0, encode_value(TagInteger, <<2>>))
           [] r.version = "v2" -> encode_value(TagCtx0, encode_value(TagInteger, <<1>>))
           [] OTHER -> <<>>)
        \o encode_value(TagInteger, <<1>>)
        \o encode_value(TagSequence, encode_value(TagOid, SHA256_WITH_RSA_ENCRYPTION))
        \o encode_value(TagSequence, <<>>)
        \o encode_value(TagSequence,
               encode_value(TagUtcTime, <<r.not_before>>)
               \o encode_value(TagUtcTime, <<r.not_after>>))
        \o encode_value(TagSequence, <<>>)
        \o encode_value(TagSequence,
               encode_value(TagSequence, encode_value(TagOid, RSA_ENCRYPTION))
               \o encode_value(TagBitString, <<0, r.key>>))
        \o encode_value(TagCtx3, ExtensionsBytes(r.exts)))

\* signer 0 is nobody: the signature verifies under no key
SignatureBytes(signer, tbs) ==
    IF signer \in Keys THEN SignatureOf(<<signer>>, tbs)
    ELSE <<(SignatureOf(<<1>>, tbs)[1] + 1) % 256>>

Envelope(tbs, signer, trailing) ==
    encode_value(TagSequence,
        tbs
        \o encode_value(TagSequence, encode_value(TagOid, SHA256_WITH_RSA_ENCRYPTION))
        \o encode_value(TagBitString, <<0>> \o SignatureBytes(signer, tbs)))
    \o (IF trailing THEN <<0>> ELSE <<>>)

CertBytes(r) == Envelope(TbsBytes(r), r.signer, r.trailing)

SeqsUpTo(S, n) == UNION {[1..k -> S] : k \in 0..n}

\* family A: the shape of the certificate varies
ShapeEntries ==
    {Entry("bc", "true", TRUE, 0), Entry("ski", "omitted", FALSE, 1),
     Entry("aki", "omitted", FALSE, 1), Entry("unk", "true", FALSE, 0),
     Entry("unk", "false", FALSE, 0), Entry("unk", "omitted", FALSE, 0)}

ShapeRecipes ==
    {[version |-> ver, exts |-> es, key |-> 1, not_before |-> 0,
      not_after |-> MaxTime, signer |-> 1, trailing |-> tr] :
        ver \in {"absent", "v3", "v2"}, es \in SeqsUpTo(ShapeEntries, MaxExt),
        tr \in BOOLEAN}

\* family B: the content of a well-shaped certificate varies
ContentExts(bc, ski, aki) ==
    (IF bc = "absent" THEN <<>> ELSE <<Entry("bc", "true", bc = "ca", 0)>>)
    \o <<Entry("ski", "omitted", FALSE, ski)>>
    \o (IF aki = 0 THEN <<>> ELSE <<Entry("aki", "omitted", FALSE, aki)>>)

\* the key after k, the other key when there are two
NextKey(k) == (k % NumKeys) + 1

\* validity intervals: the whole time line, or a single instant
Windows == {<<0, MaxTime>>} \cup {<<t, t>> : t \in Times}

ContentRecipes ==
    {[version |-> "v3",
      exts |-> ContentExts(bc, IF own THEN k ELSE NextKey(k), aki),
      key |-> k, not_before |-> w[1], not_after |-> w[2], signer |-> sg,
      trailing |-> FALSE] :
        bc \in {"absent", "ca", "notca"}, k \in Keys, own \in BOOLEAN,
        aki \in {0} \cup Keys, w \in Windows, sg \in {0} \cup Keys}

\* the issuer handed to validate_ee: a decoded certificate with public key
\* k whose subject key identifier is that of key s
IssuerCert(k, s) ==
    IdCert_decode(CertBytes(
        [version |-> "v3", exts |-> ContentExts("ca", s, s), key |-> k,
         not_before |-> 0, not_after |-> MaxTime, signer |-> k,
         trailing |-> FALSE])).val

Issuers ==
    {IssuerCert(k, IF own THEN k ELSE NextKey(k)) : k \in Keys, own \in BOOLEAN}

\* ------------------------------------------------------------------- state
VARIABLES pc, recipe, input, issuer, cert, origin, now, result, output, v

vars == <<pc, recipe, input, issuer, cert, origin, now, result, output, v>>

Init ==
    /\ pc = "start"
    /\ \/ /\ recipe \in ShapeRecipes
          /\ issuer = IssuerCert(1, 1)
       \/ /\ recipe \in ContentRecipes
          /\ issuer \in Issuers
    /\ input = CertBytes(recipe)
    /\ cert = Err
    /\ origin = "none"
    /\ now = 0
    /\ result = Err
    /\ output = <<>>
    /\ v = <<>>

\* IdCert::decode(input)
Decode ==
    /\ pc = "start"
    /\ cert' = IdCert_decode(input)
    /\ origin' = "decode"
    /\ pc' = "decoded"
    /\ UNCHANGED <<recipe, input, issuer, now, result, output, v>>

\* IdCert::to_bytes on a decoded certificate
Encode ==
    /\ pc = "decoded"
    /\ cert.ok
    /\ output' = IdCert_to_bytes(cert.val)
    /\ pc' = "encoded"
    /\ UNCHANGED <<recipe, input, issuer, cert, origin, now, result, v>>

\* the decoded certificate d with its extensions replaced
WithExtensions(d, ext) == Ok([d.val EXCEPT !.extensions = ext])

\* the constructors fill in a certificate that has no optional extension yet
Unfilled(d) ==
    /\ d.ok
    /\ ~d.val.extensions.basic_ca.some
    /\ ~d.val.extensions.authority_key_id.some

TaCert(d) ==
    /\ Unfilled(d)
    /\ cert' = WithExtensions(d, for_id_ta_cert(d.val.subject_public_key_info))

EeCert(d, i) ==
    /\ Unfilled(d)
    /\ cert' = WithExtensions(d,
                  for_id_ee_cert(d.val.subject_public_key_info,
                      [algorithm |-> "RsaEncryption", subject_public_key |-> <<i>>]))

\* a certificate carrying IdExtensions::for_id_ta_cert(its own key)
NewTaCert ==
    /\ pc = "start"
    /\ TaCert(IdCert_decode(input))
    /\ origin' = "for_id_ta_cert"
    /\ pc' = "decoded"
    /\ UNCHANGED <<recipe, input, issuer, now, result, output, v>>

\* a certificate carrying IdExtensions::for_id_ee_cert(its own key, the key
\* of some authority i)
NewEeCert ==
    /\ pc = "start"
    /\ \E i \in Keys : EeCert(IdCert_decode(input), i)
    /\ origin' = "for_id_ee_cert"
    /\ pc' = "decoded"
    /\ UNCHANGED <<recipe, input, issuer, now, result, output, v>>

\* cert.validate_ta() with the clock reading t
ValidateTa ==
    /\ pc = "decoded"
    /\ cert.ok
    /\ \E t \in Times :
          /\ now' = t
          /\ result' = validate_ta(cert.val, t)
    /\ pc' = "validated_ta"
    /\ UNCHANGED <<recipe, input, issuer, cert, origin, output, v>>

\* cert.validate_ee(&issuer) with the clock reading t
ValidateEe ==
    /\ pc = "decoded"
    /\ cert.ok
    /\ \E t \in Times :
          /\ now' = t
          /\ result' = validate_ee(cert.val, issuer, t)
    /\ pc' = "validated_ee"
    /\ UNCHANGED <<recipe, input, issuer, cert, origin, output, v>>

\* BasicCa::encode of the certificate's basic_ca written in DER, as in
\* IdExtensions::encode and tests::should_encode_basic_ca
EncodeBasicCa ==
    /\ pc = "decoded"
    /\ cert.ok
    /\ cert.val.extensions.basic_ca.some
    /\ v' = BasicCa_encode(cert.val.extensions.basic_ca.val)
    /\ pc' = "basic_ca_encoded"
    /\ UNCHANGED <<recipe, input, issuer, cert, origin, now, result, output>>

Next ==
    \/ Decode
    \/ Encode
    \/ NewTaCert
    \/ NewEeCert
    \/ ValidateTa
    \/ ValidateEe
    \/ EncodeBasicCa

Spec == Init /\ [][Next]_vars

\* ------------------------------------------------------------ properties
Validated == pc \in {"validated_ta", "validated_ee"}

DecodedFromInput == pc = "decoded" /\ origin = "decode"

Count(es, id) == Cardinality({i \in DOMAIN es : es[i].id = id})

Remove(es, i) == SubSeq(es, 1, i - 1) \o SubSeq(es, i + 1, Len(es))

TimeValid(c) == c.validity.not_before <= now /\ now <= c.validity.not_after

SkiMatchesKey(c) ==
    c.extensions.subject_key_id.subject_key_id
        = KeyId(c.subject_public_key_info.subject_public_key)

\* both fail, or both succeed with equal Extensions
SameExtensions(a, b) ==
    /\ a.ok = b.ok
    /\ a.ok => a.val.extensions = b.val.extensions

SignedBy(c, key) == c.signed_data.signature = SignatureOf(key, c.signed_data.data)

\* C1: encoding a decoded certificate gives back exactly the input bytes.
C1_RoundTrip == pc = "encoded" => output = input

\* C2: validate_ta succeeds exactly when the time is within the validity
\* interval, subjectKeyId is the key identifier of the subject key, basicCa
\* is present with CA true, authorityKeyId is absent or equal to
\* subjectKeyId, and the signature verifies under the certificate's own key.
C2_ValidateTa ==
    pc = "validated_ta" =>
        (result.ok <=>
            LET c == cert.val
            IN  /\ TimeValid(c)
                /\ SkiMatchesKey(c)
                /\ c.extensions.basic_ca.some
                /\ c.extensions.basic_ca.val.ca
                /\ \/ ~c.extensions.authority_key_id.some
                   \/ c.extensions.authority_key_id.val.authority_key_id
                        = c.extensions.subject_key_id.subject_key_id
                /\ SignedBy(c, c.subject_public_key_info.subject_public_key))

C2_Witness ==
    /\ pc = "validated_ta"
    /\ result.ok
    /\ origin = "decode"
    /\ ~cert.val.extensions.authority_key_id.some

\* C3: validate_ee(issuer) succeeds exactly when the basic checks pass,
\* authorityKeyId is present and equals the issuer's subjectKeyId, basicCa
\* is absent, and the signature verifies under the issuer's public key.
C3_ValidateEe ==
    pc = "validated_ee" =>
        (result.ok <=>
            LET c == cert.val
            IN  /\ TimeValid(c)
                /\ SkiMatchesKey(c)
                /\ c.extensions.authority_key_id.some
                /\ c.extensions.authority_key_id.val.authority_key_id
                     = issuer.extensions.subject_key_id.subject_key_id
                /\ ~c.extensions.basic_ca.some
                /\ SignedBy(c, issuer.subject_public_key_info.subject_public_key))

C3_Witness ==
    /\ pc = "validated_ee"
    /\ result.ok
    /\ origin = "decode"
    /\ issuer.extensions.subject_key_id.subject_key_id
         # KeyId(issuer.subject_public_key_info.subject_public_key)

\* C4: an unknown extension marked critical makes decoding fail; with the
\* flag false or left out the input decodes as the same input without that
\* entry does, and to the same Extensions value.
C4_UnknownCritical ==
    DecodedFromInput =>
        /\ (\E i \in DOMAIN recipe.exts :
                recipe.exts[i].id = "unk" /\ recipe.exts[i].flag = "true")
            => ~cert.ok
        /\ \A i \in DOMAIN recipe.exts :
              (recipe.exts[i].id = "unk" /\ recipe.exts[i].flag # "true") =>
                  SameExtensions(cert,
                      IdCert_decode(CertBytes(
                          [recipe EXCEPT !.exts = Remove(recipe.exts, i)])))

C4_Witness ==
    /\ DecodedFromInput
    /\ cert.ok
    /\ \E i \in DOMAIN recipe.exts :
          recipe.exts[i].id = "unk" /\ recipe.exts[i].flag = "omitted"
    /\ \E i \in DOMAIN recipe.exts :
          recipe.exts[i].id = "unk" /\ recipe.exts[i].flag = "false"

\* C5 as stated: an input without the version field decodes whenever the
\* same input with version 2 does, and any other version value fails.
C5_VersionOptional ==
    DecodedFromInput =>
        /\ recipe.version = "absent" =>
              cert.ok = IdCert_decode(CertBytes([recipe EXCEPT !.version = "v3"])).ok
        /\ recipe.version = "v2" => ~cert.ok

\* C5 amended: the version field is mandatory; an input decodes only when
\* the field is there and holds 2.
C5_VersionMandatory ==
    DecodedFromInput => (cert.ok => recipe.version = "v3")

C5_Witness ==
    /\ DecodedFromInput
    /\ recipe.version = "absent"
    /\ ~cert.ok
    /\ IdCert_decode(CertBytes([recipe EXCEPT !.version = "v3"])).ok

\* C6 as stated: every certificate that decodes has subjectKeyId equal to
\* the key identifier of its subject key.
C6_DecodedSkiMatches ==
    (DecodedFromInput /\ cert.ok) => SkiMatchesKey(cert.val)

\* C6 amended: every certificate that validate_ta or validate_ee returns
\* has subjectKeyId equal to the key identifier of its subject key.
C6_ValidatedSkiMatches ==
    (Validated /\ result.ok) => SkiMatchesKey(result.val)

C6_Witness ==
    /\ Validated
    /\ result.ok
    /\ SkiMatchesKey(result.val)
    /\ \E e \in DOMAIN recipe.exts :
          recipe.exts[e].id = "ski" /\ recipe.exts[e].kid = recipe.key

\* C7: the extension block decodes only if no known identifier occurs
\* twice and subject-key-identifier occurs; basicCa and authorityKeyId are
\* absent in the result exactly when their entry did not occur; their
\* absence does not fail decoding; a failure carries no value.
C7_ExtensionBlock ==
    DecodedFromInput =>
        LET es == recipe.exts
        IN  /\ cert.ok =>
                  /\ Count(es, "bc") <= 1
                  /\ Count(es, "ski") = 1
                  /\ Count(es, "aki") <= 1
                  /\ cert.val.extensions.basic_ca.some <=> Count(es, "bc") = 1
                  /\ cert.val.extensions.authority_key_id.some <=> Count(es, "aki") = 1
            /\ ( /\ recipe.version = "v3"
                 /\ Count(es, "bc") <= 1
                 /\ Count(es, "ski") = 1
                 /\ Count(es, "aki") <= 1
                 /\ \A i \in DOMAIN es : es[i].id = "unk" => es[i].flag # "true" )
               => cert.ok
            /\ ~cert.ok => cert = Err

C7_Witness ==
    /\ DecodedFromInput
    /\ cert.ok
    /\ Len(recipe.exts) = MaxExt
    /\ ~cert.val.extensions.basic_ca.some
    /\ ~cert.val.extensions.authority_key_id.some

\* C8: a validation step ends in Ok with the very certificate it was given
\* or in the bare error, and changes neither the certificate nor the issuer.
C8_ConsumeAndReturn ==
    [][(pc = "decoded" /\ pc' \in {"validated_ta", "validated_ee"}) =>
          /\ result' = Ok(cert.val) \/ result' = Err
          /\ cert' = cert
          /\ issuer' = issuer]_vars

C8_Witness ==
    /\ Validated
    /\ result = Ok(cert.val)
    /\ cert.val.extensions.authority_key_id.some

\* C9: BasicCa::new(true, true) encodes in DER to
\* 48 15 6 3 85 29 19 1 1 255 4 5 48 3 1 1 255.
C9_BasicCaBytes ==
    (pc = "basic_ca_encoded"
        /\ cert.val.extensions.basic_ca = Some(BasicCa_new(TRUE, TRUE))) =>
        v = <<48, 15, 6, 3, 85, 29, 19, 1, 1, 255, 4, 5, 48, 3, 1, 1, 255>>

C9_Witness ==
    /\ pc = "basic_ca_encoded"
    /\ cert.val.extensions.basic_ca = Some(BasicCa_new(TRUE, TRUE))
    /\ Len(v) = 17

\* C10: with for_id_ta_cert(k) on a certificate of key k, validate_ta fails
\* only on the validity interval or the signature; with for_id_ee_cert(s, i)
\* on a certificate of key s, validate_ee against an issuer whose
\* subjectKeyId is the identifier of key i fails only on the validity
\* interval or the signature.
C10_Constructors ==
    /\ (origin = "for_id_ta_cert" /\ cert.ok) =>
          LET c == cert.val
          IN  /\ c.extensions.basic_ca.some /\ c.extensions.basic_ca.val.ca
              /\ SkiMatchesKey(c)
              /\ c.extensions.authority_key_id.some
              /\ c.extensions.authority_key_id.val.authority_key_id
                   = c.extensions.subject_key_id.subject_key_id
              /\ pc = "validated_ta" =>
                    (result.ok <=>
                        /\ TimeValid(c)
                        /\ SignedBy(c, c.subject_public_key_info.subject_public_key))
    /\ (origin = "for_id_ee_cert" /\ cert.ok) =>
          LET c == cert.val
          IN  /\ ~c.extensions.basic_ca.some
              /\ SkiMatchesKey(c)
              /\ c.extensions.authority_key_id.some
              /\ \E i \in Keys :
                    c.extensions.authority_key_id.val.authority_key_id = KeyId(<<i>>)
              /\ ( /\ pc = "validated_ee"
                   /\ issuer.extensions.subject_key_id.subject_key_id
                        = c.extensions.authority_key_id.val.authority_key_id )
                 => (result.ok <=>
                        /\ TimeValid(c)
                        /\ SignedBy(c, issuer.subject_public_key_info.subject_public_key))

C10_Witness ==
    /\ pc = "validated_ee"
    /\ origin = "for_id_ee_cert"
    /\ result.ok
    /\ cert.val.extensions.authority_key_id.val.authority_key_id
         # cert.val.extensions.subject_key_id.subject_key_id

====
